---------------------------- MODULE Spec2Model ----------------------------
(***************************************************************************)
(* Contact form pipeline of the portfolio site: per-field state, whole-form*)
(* validation, submission through submitContactForm / makeRequest, and the *)
(* success banner's auto-hide timer (Spec, FairSpec, AutoHideSpec); the    *)
(* App component's theme controller (ThemeSpec); sanitizeInput,            *)
(* validateField and handleInputChange as functions (CalcSpec).            *)
(*                                                                         *)
(* Strings that the code inspects character by character (field values)   *)
(* are sequences of one-character strings; messages that the code only     *)
(* copies around are TLA+ strings.                                         *)
(***************************************************************************)
EXTENDS Integers, Sequences, FiniteSets, TLC

(***************************************************************************)
(* Characters and the JavaScript string primitives the code uses           *)
(***************************************************************************)

\* Characters matched by \s (and removed by String.prototype.trim)
Whitespace == {" ", "\t", "\n"}

LowerCase == <<"a","b","c","d","e","f","g","h","i","j","k","l","m",
               "n","o","p","q","r","s","t","u","v","w","x","y","z">>

UpperCase == <<"A","B","C","D","E","F","G","H","I","J","K","L","M",
               "N","O","P","Q","R","S","T","U","V","W","X","Y","Z">>

Digits == {"0","1","2","3","4","5","6","7","8","9"}

Range(s) == {s[i] : i \in DOMAIN s}

\* Characters matched by \w
WordChars == Range(LowerCase) \cup Range(UpperCase) \cup Digits \cup {"_"}

\* Case folding used by the /i flag
ToLower(c) ==
  IF c \in Range(UpperCase)
    THEN LowerCase[CHOOSE k \in DOMAIN UpperCase : UpperCase[k] = c]
    ELSE c

\* String.prototype.trim
Trim(s) ==
  LET keep == {i \in DOMAIN s : s[i] \notin Whitespace}
  IN  IF keep = {} THEN <<>>
      ELSE LET lo == CHOOSE i \in keep : \A j \in keep : i <= j
               hi == CHOOSE i \in keep : \A j \in keep : j <= i
           IN  SubSeq(s, lo, hi)

\* The literal lit occurs in s at position i, ignoring case
MatchLitAt(s, i, lit) ==
  /\ i + Len(lit) - 1 <= Len(s)
  /\ \A k \in 1..Len(lit) : ToLower(s[i + k - 1]) = lit[k]

\* s.replace(/lit/gi, ''): scan left to right, drop each leftmost match
RECURSIVE RemoveLit(_, _, _)
RemoveLit(s, i, lit) ==
  IF i > Len(s) THEN <<>>
  ELSE IF MatchLitAt(s, i, lit) THEN RemoveLit(s, i + Len(lit), lit)
  ELSE <<s[i]>> \o RemoveLit(s, i + 1, lit)

\* End of the maximal run of \w characters starting at position i (i-1 if none)
RECURSIVE WordRunEnd(_, _)
WordRunEnd(s, i) ==
  IF i <= Len(s) /\ s[i] \in WordChars THEN WordRunEnd(s, i + 1) ELSE i - 1

\* Length of the match of /on\w+=/i at position i, 0 when there is none.
\* '=' is not a word character, so the greedy \w+ can only be followed by
\* '=' right after the maximal run.
HandlerMatchLen(s, i) ==
  IF /\ i + 1 <= Len(s)
     /\ ToLower(s[i]) = "o"
     /\ ToLower(s[i + 1]) = "n"
  THEN LET e == WordRunEnd(s, i + 2)
       IN  IF e >= i + 2 /\ e + 1 <= Len(s) /\ s[e + 1] = "="
             THEN e + 2 - i
             ELSE 0
  ELSE 0

\* s.replace(/on\w+=/gi, '')
RECURSIVE RemoveHandlers(_, _)
RemoveHandlers(s, i) ==
  IF i > Len(s) THEN <<>>
  ELSE LET n == HandlerMatchLen(s, i)
       IN  IF n > 0 THEN RemoveHandlers(s, i + n)
           ELSE <<s[i]>> \o RemoveHandlers(s, i + 1)

\* Variant of IsNotAngle that lets '>' through
IsNotOpenAngle(c) == c # "<"

\* Characters kept by replace(/[<>]/g, '')
IsNotAngle(c) == c \notin {"<", ">"}

JavascriptProtocol == <<"j","a","v","a","s","c","r","i","p","t",":">>

\* utils/validation sanitizeInput: trim, then the three replacements in order
sanitizeInput(input) ==
  RemoveHandlers(
    RemoveLit(SelectSeq(Trim(input), IsNotAngle), 1, JavascriptProtocol), 1)

\* Characters of VALIDATION_REGEX.NAME's class [a-zA-Z\s\-']
NameChars == Range(LowerCase) \cup Range(UpperCase) \cup Whitespace \cup {"-", "'"}

\* utils/validation isValidName: /^[a-zA-Z\s\-']{2,50}$/ on the trimmed name
isValidName(name) ==
  LET t == Trim(name)
  IN  /\ Len(t) >= 2
      /\ Len(t) <= 50
      /\ \A i \in DOMAIN t : t[i] \in NameChars

\* VALIDATION_REGEX.EMAIL's classes [a-zA-Z0-9._%+-], [a-zA-Z0-9.-], [a-zA-Z]
Letters == Range(LowerCase) \cup Range(UpperCase)
EmailLocalChars == Letters \cup Digits \cup {".", "_", "%", "+", "-"}
EmailDomainChars == Letters \cup Digits \cup {".", "-"}

\* utils/validation isValidEmail:
\* /^[a-zA-Z0-9._%+-]+@[a-zA-Z0-9.-]+\.[a-zA-Z]{2,}$/ on the trimmed value.
\* '@' is in neither class, and the letters after the dot hold no dot, so the
\* match splits at the only '@' and at the last '.'.
isValidEmail(email) ==
  LET t == Trim(email)
  IN  \E at \in DOMAIN t : \E d \in DOMAIN t :
        /\ t[at] = "@"
        /\ t[d] = "."
        /\ at > 1
        /\ d > at + 1
        /\ Len(t) - d >= 2
        /\ \A i \in 1..(at - 1) : t[i] \in EmailLocalChars
        /\ \A i \in (at + 1)..(d - 1) : t[i] \in EmailDomainChars
        /\ \A i \in (d + 1)..Len(t) : t[i] \in Letters

\* utils/validation validateContactForm's email check: the message it pushes,
\* "" when it pushes none
validateContactFormEmail(email) ==
  IF Trim(email) = <<>> THEN "This field is required"
  ELSE IF ~isValidEmail(email) THEN "Please enter a valid email address"
  ELSE ""

\* /^[^\s@]+@[^\s@]+\.[^\s@]+$/ as used by the form's email check
emailRegexTest(s) ==
  /\ \A i \in DOMAIN s : s[i] \notin Whitespace
  /\ Cardinality({i \in DOMAIN s : s[i] = "@"}) = 1
  /\ LET at == CHOOSE i \in DOMAIN s : s[i] = "@"
     IN  /\ at > 1
         /\ \E d \in (at + 2)..(Len(s) - 1) : s[d] = "."

(***************************************************************************)
(* Form configuration and validation (components/Contact.tsx)              *)
(***************************************************************************)

Fields == {"name", "email", "subject", "message"}

\* minLength / maxLength 0 stand for "not configured" (falsy in the code)
FORM_FIELDS ==
  [name    |-> [required |-> TRUE,  minLength |-> 2,  maxLength |-> 50],
   email   |-> [required |-> TRUE,  minLength |-> 0,  maxLength |-> 0],
   subject |-> [required |-> FALSE, minLength |-> 2,  maxLength |-> 100],
   message |-> [required |-> TRUE,  minLength |-> 10, maxLength |-> 1000]]

MsgRequired == "This field is required"
MsgTooShort(n) == "Must be at least " \o ToString(n) \o " characters"
MsgTooLong(n) == "Must be no more than " \o ToString(n) \o " characters"
MsgEmail == "Please enter a valid email address"

\* Variant of validateField that tests the format before the lengths and the
\* minimum length before the required check
validateFieldFormatFirst(fieldName, value) ==
  LET field == FORM_FIELDS[fieldName]
      t == Trim(value)
  IN  IF fieldName = "email" /\ t # <<>> /\ ~emailRegexTest(t)
        THEN MsgEmail
      ELSE IF field.minLength # 0 /\ Len(t) < field.minLength
        THEN MsgTooShort(field.minLength)
      ELSE IF field.required /\ t = <<>> THEN MsgRequired
      ELSE IF field.maxLength # 0 /\ Len(t) > field.maxLength
        THEN MsgTooLong(field.maxLength)
      ELSE ""

\* Contact.validateField: first failing check's message, "" when valid
validateField(fieldName, value) ==
  LET field == FORM_FIELDS[fieldName]
      t == Trim(value)
  IN  IF field.required /\ t = <<>> THEN MsgRequired
      ELSE IF field.minLength # 0 /\ Len(t) < field.minLength
        THEN MsgTooShort(field.minLength)
      ELSE IF field.maxLength # 0 /\ Len(t) > field.maxLength
        THEN MsgTooLong(field.maxLength)
      ELSE IF fieldName = "email" /\ t # <<>> /\ ~emailRegexTest(t)
        THEN MsgEmail
      ELSE ""


AllFields == <<"name", "email", "subject", "message">>

\* Variant of validateForm whose verdict ignores the fields' errors
validateFormNoGate(fs) ==
  LET err(f) == validateField(f, fs[f].value)
  IN  [isValid |-> TRUE,
       newFormState |->
         [f \in Fields |->
            IF err(f) # ""
              THEN [value |-> fs[f].value, error |-> err(f), touched |-> TRUE]
              ELSE [value |-> fs[f].value, error |-> "",
                    touched |-> fs[f].touched]]]

\* Variant of validateForm that stops at the first invalid field
validateFormStopAtFirst(fs) ==
  LET err(f) == validateField(f, fs[f].value)
      bad == {k \in DOMAIN AllFields : err(AllFields[k]) # ""}
      first == IF bad = {} THEN 0 ELSE CHOOSE k \in bad : \A j \in bad : k <= j
  IN  [isValid |-> bad = {},
       newFormState |->
         [f \in Fields |->
            IF first # 0 /\ f = AllFields[first]
              THEN [value |-> fs[f].value, error |-> err(f), touched |-> TRUE]
              ELSE fs[f]]]

\* Variant of validateForm that sets the errors without marking the fields
validateFormNoTouch(fs) ==
  LET err(f) == validateField(f, fs[f].value)
  IN  [isValid |-> \A k \in DOMAIN AllFields : err(AllFields[k]) = "",
       newFormState |->
         [f \in Fields |->
            [value |-> fs[f].value, error |-> err(f), touched |-> fs[f].touched]]]

\* Contact.validateForm: every field is validated; an invalid field gets its
\* error and touched = true, a valid one gets its error cleared
validateForm(fs) ==
  LET err(f) == validateField(f, fs[f].value)
  IN  [isValid |-> \A k \in DOMAIN AllFields : err(AllFields[k]) = "",
       newFormState |->
         [f \in Fields |->
            IF err(f) # ""
              THEN [value |-> fs[f].value, error |-> err(f), touched |-> TRUE]
              ELSE [value |-> fs[f].value, error |-> "",
                    touched |-> fs[f].touched]]]

EmptyField == [value |-> <<>>, error |-> "", touched |-> FALSE]

\* Variant of ChangedField that leaves the field untouched
ChangedFieldUntouched(raw) == [value |-> sanitizeInput(raw), error |-> "", touched |-> FALSE]

\* The field state handleInputChange stores for the typed text raw
ChangedField(raw) == [value |-> sanitizeInput(raw), error |-> "", touched |-> TRUE]

\* The initial / reset form state: every field { value: '', error: '', touched: false }
EmptyForm == [f \in Fields |-> EmptyField]

\* An optional value: Undefined, or Some(v)
Undefined == <<>>
Some(v) == <<v>>

\* Variant of BuildFormData that never sends the subject
BuildFormDataNoSubject(fs) ==
  [name    |-> Trim(fs["name"].value),
   email   |-> Trim(fs["email"].value),
   message |-> Trim(fs["message"].value),
   subject |-> Undefined]

\* handleSubmit's formData: trimmed values, subject: trimmed || undefined
BuildFormData(fs) ==
  [name    |-> Trim(fs["name"].value),
   email   |-> Trim(fs["email"].value),
   message |-> Trim(fs["message"].value),
   subject |-> IF Trim(fs["subject"].value) = <<>>
                 THEN Undefined
                 ELSE Some(Trim(fs["subject"].value))]

(***************************************************************************)
(* Errors and HTTP (utils/api.ts)                                          *)
(***************************************************************************)

MAX_RETRIES == 3
RETRY_DELAY == 1000

\* A thrown value.  isError: it is an instance of Error.
MkError(name, message, status, errors) ==
  [isError |-> TRUE, name |-> name, message |-> message,
   status |-> status, errors |-> errors]

NoError == [isError |-> FALSE, name |-> "none", message |-> "",
            status |-> 0, errors |-> {}]

\* A rejection with something that is not an Error (injected onSubmit only)
ThrownValue == [isError |-> FALSE, name |-> "value", message |-> "",
                status |-> 0, errors |-> {}]

ApiError(message, status) == MkError("ApiError", message, status, {})
NetworkError(message) == MkError("NetworkError", message, 0, {})
ValidationError(message, errors) == MkError("ValidationError", message, 0, errors)

Statuses == {200, 400, 503}

\* response.ok
ResponseOk(status) == status >= 200 /\ status <= 299

\* `HTTP ${response.status}: ${response.statusText}`
HttpMessage(status) ==
  CASE status = 200 -> "HTTP 200: OK"
    [] status = 400 -> "HTTP 400: Bad Request"
    [] status = 503 -> "HTTP 503: Service Unavailable"
    [] OTHER -> "HTTP " \o ToString(status) \o ": "

\* Response bodies.  json: the body parses as JSON; message "" stands for a
\* body without a (truthy) message; errors is a set of <<field, message>>.
MkBody(json, success, message, hasErrors, errors) ==
  [json |-> json, success |-> success, message |-> message,
   hasErrors |-> hasErrors, errors |-> errors]

NoBody == MkBody(FALSE, FALSE, "", FALSE, {})

FieldErrors == {<<"email", "Email is blocked">>}

Bodies ==
  { MkBody(FALSE, FALSE, "", FALSE, {}),
    MkBody(TRUE, TRUE, "Message received", FALSE, {}),
    MkBody(TRUE, FALSE, "Validation failed", TRUE, FieldErrors),
    MkBody(TRUE, FALSE, "Rejected by server", FALSE, {}),
    MkBody(TRUE, FALSE, "", FALSE, {}) }

\* The outcome of a promise: it resolved (ok) or rejected with error
Resolved == [ok |-> TRUE, error |-> NoError]
Rejected(e) == [ok |-> FALSE, error |-> e]

\* Variant of makeRequestTry that ignores the body's message
makeRequestTryGenericMessage(status, body) ==
  IF ~ResponseOk(status) THEN Rejected(ApiError(HttpMessage(status), status))
  ELSE IF ~body.json THEN Rejected(MkError("SyntaxError", "Unexpected token", 0, {}))
  ELSE Resolved

\* makeRequest's try block once the response and its body are in
makeRequestTry(status, body) ==
  IF ~ResponseOk(status)
    THEN Rejected(ApiError(IF body.json /\ body.message # ""
                             THEN body.message
                             ELSE HttpMessage(status),
                           status))
  ELSE IF ~body.json THEN Rejected(MkError("SyntaxError", "Unexpected token", 0, {}))
  ELSE Resolved

\* Variant of makeRequestCatch with the retry test ahead of the re-throw and
\* taken for every ApiError
makeRequestCatchRetryAll(error, retryCount) ==
  IF error.isError /\ error.name = "AbortError"
    THEN [retry |-> FALSE, error |-> NetworkError("Request timeout")]
  ELSE IF retryCount < MAX_RETRIES /\ error.name = "ApiError"
    THEN [retry |-> TRUE, error |-> error]
  ELSE [retry |-> FALSE, error |-> error]

\* Messages of a failed fetch's TypeError: the engines' wordings.  The first
\* contains 'fetch', the second does not.
FetchFailures == {"Failed to fetch", "Load failed"}
IncludesFetch == {"Failed to fetch"}

\* makeRequest's catch block: what it throws, or that it retries
makeRequestCatch(error, retryCount) ==
  IF error.isError /\ error.name = "AbortError"
    THEN [retry |-> FALSE, error |-> NetworkError("Request timeout")]
  ELSE IF error.name = "TypeError" /\ error.message \in IncludesFetch
    THEN [retry |-> FALSE, error |-> NetworkError("Network connection failed")]
  ELSE IF error.name = "ApiError"
    THEN [retry |-> FALSE, error |-> error]
  ELSE IF retryCount < MAX_RETRIES
          /\ error.name = "ApiError" /\ error.status >= 500
    THEN [retry |-> TRUE, error |-> error]
  ELSE [retry |-> FALSE, error |-> error]

\* Variant of submitContactForm whose catch rewraps every error
submitContactFormRewrapAll(r, body) ==
  IF r.ok /\ body.success THEN Resolved
  ELSE Rejected(ApiError("Failed to submit contact form", 500))

\* submitContactForm around apiPost: r is makeRequest's outcome, body the
\* parsed response when it resolved
submitContactForm(r, body) ==
  LET thrown == IF r.ok
                  THEN IF ~body.success
                         THEN ValidationError(body.message,
                                IF body.hasErrors THEN body.errors ELSE {})
                         ELSE NoError
                  ELSE r.error
  IN  IF r.ok /\ body.success THEN Resolved
      ELSE IF thrown.name = "ValidationError" THEN Rejected(thrown)
      ELSE Rejected(ApiError("Failed to submit contact form", 500))


(***************************************************************************)
(* What the user may type                                                  *)
(***************************************************************************)

\* How many of each field's inputs below the user may type
NumInputs == 2

\* How many of the name's inputs below the user may type
NumNameInputs == 3

Inputs ==
  [name    |-> << <<" ","<","A",">"," ">>,
                  <<"J","a","n","e"," ","D","o","e">>,
                  <<"J","o","3">>,
                  <<" "," ">>,
                  <<"o","n","x","=","A","l">> >>,
   email   |-> << <<"b","a","d">>,
                  <<" ","j","@","e",".","c","o"," ">>,
                  <<" ">>,
                  <<"a","@","b">> >>,
   subject |-> << <<"S">>,
                  <<"<","H","i",">">>,
                  <<"\t">>,
                  <<"o","n","c","l","i","c","k","=","x">> >>,
   message |-> << <<"h","i">>,
                  <<"<","p",">","H","e","l","l","o"," ","t","h","e","r","e">>,
                  <<" ","\n">>,
                  <<"J","a","v","a","S","c","r","i","p","t",":",
                    "a","l","e","r","t","(","1",")">> >>]

InputIndexes(f) ==
  LET n == IF f = "name" THEN NumNameInputs ELSE NumInputs
  IN  1..(IF n < Len(Inputs[f]) THEN n ELSE Len(Inputs[f]))

(***************************************************************************)
(* State                                                                   *)
(***************************************************************************)

VARIABLES
  formState,     \* field name -> [value, error, touched]
  isSubmitting,  \* a submission is awaited
  submitResult,  \* the banner: NullResult or [success, message]
  isSubmitted,   \* a submission has succeeded since mount / reset
  hideTimer,     \* the auto-hide effect's 5 s timer is armed
  onSubmit,      \* the onSubmit prop is given (else submitContactForm is used)
  calls,         \* the submission calls in flight
  lastStep       \* the handler that ran last and, for a settled call, its story

\* The theme controller (the App component) and its environment
VARIABLES
  isDarkMode,     \* the theme state
  isThemeLoading, \* the theme has not been initialised yet
  themeError,     \* the theme error shown to the user, "" for null
  storedTheme,    \* localStorage's theme entry: "none", "dark" or "light"
  storage,        \* localStorage: "ok", "readOnly" (setItem throws) or
                  \* "denied" (every access throws)
  prefersDark,    \* matchMedia('(prefers-color-scheme: dark)').matches
  dataTheme,      \* the document's data-theme attribute, "unset" before it is set
  darkModeClass,  \* the body element has the class 'dark-mode'
  applyPending,   \* the apply effect is scheduled for the rendered state
  themeStep       \* the theme handler that ran last, and what it did

\* One evaluation of a function of its arguments alone: the function, its
\* arguments and its results
VARIABLES calc

contactVars == <<formState, isSubmitting, submitResult, isSubmitted, hideTimer,
                 onSubmit, calls, lastStep>>

themeVars == <<isDarkMode, isThemeLoading, themeError, storedTheme, storage,
               prefersDark, dataTheme, darkModeClass, applyPending, themeStep>>

vars == <<contactVars, themeVars, calc>>

NullResult == [isNull |-> TRUE, success |-> FALSE, message |-> ""]
Result(success, message) ==
  [isNull |-> FALSE, success |-> success, message |-> message]

SuccessMessage == "Thank you for your message! I will get back to you soon."
FailureMessage == "Failed to send message. Please try again."

\* What the environment did to a call: kind is "none", "onSubmit",
\* "response", "timeout" or "fetchFailed"; thrown is the error that reached
\* makeRequest's catch block (NoError when none did)
Cause(kind, status, body) ==
  [kind |-> kind, status |-> status, body |-> body, thrown |-> NoError]
NoCause == Cause("none", 0, NoBody)

\* A call of the submission function.  pc: "pending" (the injected onSubmit's
\* promise), "fetching" (fetch awaited, abort timer armed), "body" (response
\* in, body awaited, abort timer cleared), "delay" (waiting before a retry).
\* attempts counts the fetch calls made, statuses the responses received,
\* delays the waits before retries.
Call(payload, pc, retryCount, attempts, statuses, delays) ==
  [payload |-> payload, pc |-> pc, retryCount |-> retryCount,
   attempts |-> attempts, statuses |-> statuses, delays |-> delays]

NoPayload == [name |-> <<>>, email |-> <<>>, message |-> <<>>, subject |-> Undefined]
NoCall == Call(NoPayload, "none", 0, 0, <<>>, <<>>)

\* lastStep: the handler that ran, and for one that settled a call: the call,
\* what the environment did last, the error makeRequest threw (requestError)
\* and the error handleSubmit caught (error; NoError when it resolved)
Step(event, call, cause, requestError, error) ==
  [event |-> event, call |-> call, cause |-> cause,
   requestError |-> requestError, error |-> error]

\* A step that settles no call
Event(event) == Step(event, NoCall, NoCause, NoError, NoError)

\* submitResult?.success, the auto-hide effect's dependency
SuccessDep(r) == IF r.isNull THEN "undefined" ELSE IF r.success THEN "true" ELSE "false"

\* Variant of AutoHideEffect without the cleanup: a timer once set stays set
AutoHideEffectNoCleanup(old, new, timer) == timer \/ SuccessDep(new) = "true"

\* Variant of AutoHideEffect that sets its timer for every banner
AutoHideEffectAnyResult(old, new, timer) ==
  IF SuccessDep(old) = SuccessDep(new) THEN timer ELSE ~new.isNull

\* The auto-hide effect after a render: when its dependency changed, the old
\* timer is cleared and a new one is set if the banner reports success
AutoHideEffect(old, new, timer) ==
  IF SuccessDep(old) = SuccessDep(new) THEN timer ELSE SuccessDep(new) = "true"

(***************************************************************************)
(* Theme controller (the App component, components/Competencies.tsx)       *)
(***************************************************************************)

\* Variant of ThemeValue that persists 'light' whatever the mode
ThemeValueAlwaysLight(dark) == "light"

\* isDarkMode ? 'dark' : 'light'
ThemeValue(dark) == IF dark THEN "dark" ELSE "light"

\* Variant of UseDark where the platform preference wins over a saved theme
UseDarkPlatformFirst(savedTheme, prefers) == prefers

\* initializeTheme's test: savedTheme === 'dark' || (!savedTheme && prefersDark)
UseDark(savedTheme, prefers) ==
  savedTheme = "dark" \/ (savedTheme = "none" /\ prefers)

\* Variant of SystemThemeMode that follows the platform whatever is saved
SystemThemeModeAlways(savedTheme, matches, current) == matches

\* handleSystemThemeChange's update: if (!savedTheme) setIsDarkMode(event.matches)
SystemThemeMode(savedTheme, matches, current) ==
  IF savedTheme = "none" THEN matches ELSE current

LoadError == "Failed to load theme preferences"
ApplyError == "Failed to apply theme changes"

\* themeStep: the handler that ran last (event), isDarkMode and the storage's
\* theme entry before it (before, saved), whether a storage access of it threw
\* (threw) and whether it then called
\* setThemeError with a message (recorded).  Two facts about the past are
\* carried along: the storage held no theme at the first visit (firstVisit),
\* and the mode the user's last toggle chose (toggledTo; "none" when there was
\* no toggle, or when the page was left before the apply effect ran).
ThemeStep(event, before, saved, threw, recorded, firstVisit, toggledTo) ==
  [event |-> event, before |-> before, saved |-> saved,
   threw |-> threw, recorded |-> recorded,
   firstVisit |-> firstVisit, toggledTo |-> toggledTo]

\* The App component is not part of the run
ThemeIdle ==
  /\ isDarkMode = FALSE
  /\ isThemeLoading = TRUE
  /\ themeError = ""
  /\ storedTheme = "none"
  /\ storage = "ok"
  /\ prefersDark = FALSE
  /\ dataTheme = "unset"
  /\ darkModeClass = FALSE
  /\ applyPending = FALSE
  /\ themeStep = ThemeStep("idle", FALSE, "none", FALSE, FALSE, TRUE, "none")

\* No function evaluation is part of the run
NoCalc == [fn |-> "none", field |-> "none", input |-> <<>>, sanitized |-> <<>>,
           error |-> "", contactFormError |-> "", stored |-> EmptyField,
           done |-> FALSE]

ContactInit ==
  /\ formState = EmptyForm
  /\ isSubmitting = FALSE
  /\ submitResult = NullResult
  /\ isSubmitted = FALSE
  /\ hideTimer = FALSE
  /\ onSubmit \in BOOLEAN
  /\ calls = <<>>
  /\ lastStep = Event("mount")

Init ==
  /\ ContactInit
  /\ ThemeIdle
  /\ calc = NoCalc

(***************************************************************************)
(* Form events                                                             *)
(***************************************************************************)

\* handleInputChange(f, raw)
handleInputChange(f, raw) ==
  /\ formState' = [formState EXCEPT ![f] = ChangedField(raw)]
  /\ lastStep' = Event("change")
  /\ UNCHANGED <<isSubmitting, submitResult, isSubmitted, hideTimer, onSubmit, calls>>
  /\ UNCHANGED <<themeVars, calc>>

\* handleFieldBlur(f)
handleFieldBlur(f) ==
  /\ formState' = [formState EXCEPT ![f] =
                     [value |-> formState[f].value,
                      error |-> validateField(f, formState[f].value),
                      touched |-> TRUE]]
  /\ lastStep' = Event("blur")
  /\ UNCHANGED <<isSubmitting, submitResult, isSubmitted, hideTimer, onSubmit, calls>>
  /\ UNCHANGED <<themeVars, calc>>

\* Variant of SubmitEnabled: a button that is never disabled
SubmitAlwaysEnabled == TRUE

\* The submit button is rendered with disabled={isSubmitting}
SubmitEnabled == ~isSubmitting

\* Variant of StartedResult that keeps the banner of the previous attempt
StartedResultKept(r) == r

\* handleSubmit clears the previous result when a submission starts
StartedResult(r) == NullResult

\* The call handleSubmit starts: the injected onSubmit's promise, or
\* submitContactForm -> apiPost -> makeRequest's first fetch
NewCall(formData) ==
  IF onSubmit
    THEN Call(formData, "pending", 0, 0, <<>>, <<>>)
    ELSE Call(formData, "fetching", 0, 1, <<>>, <<>>)

\* handleSubmit up to its await
handleSubmit ==
  /\ SubmitEnabled
  /\ LET v == validateForm(formState)
     IN  /\ formState' = v.newFormState
         /\ IF ~v.isValid
              THEN /\ lastStep' = Event("submitBlocked")
                   /\ UNCHANGED <<isSubmitting, submitResult, hideTimer, calls>>
              ELSE /\ isSubmitting' = TRUE
                   /\ submitResult' = StartedResult(submitResult)
                   /\ hideTimer' = AutoHideEffect(submitResult, StartedResult(submitResult),
                                                  hideTimer)
                   /\ calls' = Append(calls, NewCall(BuildFormData(formState)))
                   /\ lastStep' = Event("submitStarted")
  /\ UNCHANGED <<isSubmitted, onSubmit>>
  /\ UNCHANGED <<themeVars, calc>>

\* handleReset, behind the button rendered when isSubmitted
handleReset ==
  /\ isSubmitted
  /\ formState' = EmptyForm
  /\ submitResult' = NullResult
  /\ isSubmitted' = FALSE
  /\ hideTimer' = AutoHideEffect(submitResult, NullResult, hideTimer)
  /\ lastStep' = Event("reset")
  /\ UNCHANGED <<isSubmitting, onSubmit, calls>>
  /\ UNCHANGED <<themeVars, calc>>

\* The auto-hide effect's timer fires
AutoHide ==
  /\ hideTimer
  /\ submitResult' = NullResult
  /\ hideTimer' = FALSE
  /\ lastStep' = Event("autoHide")
  /\ UNCHANGED <<formState, isSubmitting, isSubmitted, onSubmit, calls>>
  /\ UNCHANGED <<themeVars, calc>>


(***************************************************************************)
(* The awaited call and handleSubmit's continuation                        *)
(***************************************************************************)

RemoveAt(seq, i) == SubSeq(seq, 1, i - 1) \o SubSeq(seq, i + 1, Len(seq))

\* Variants of SettledForm: no reset on success; a reset in every case
SettledFormKept(outcome, fs) == fs
SettledFormCleared(outcome, fs) == EmptyForm

\* handleSubmit's success path resets the form; its catch leaves it alone
SettledForm(outcome, fs) == IF outcome.ok THEN EmptyForm ELSE fs

\* The banner handleSubmit records
SettledResult(outcome) ==
  IF outcome.ok THEN Result(TRUE, SuccessMessage)
  ELSE Result(FALSE, IF outcome.error.isError THEN outcome.error.message
                     ELSE FailureMessage)

\* handleSubmit after its await: outcome is the awaited promise's
Settle(i, outcome, cause, requestError) ==
  /\ calls' = RemoveAt(calls, i)
  /\ formState' = SettledForm(outcome, formState)
  /\ submitResult' = SettledResult(outcome)
  /\ isSubmitted' = (isSubmitted \/ outcome.ok)
  /\ isSubmitting' = FALSE
  /\ hideTimer' = AutoHideEffect(submitResult, SettledResult(outcome), hideTimer)
  /\ lastStep' = Step("settled", calls[i], cause, requestError, outcome.error)
  /\ UNCHANGED onSubmit

\* The injected onSubmit's promise settles
OnSubmitOutcomes ==
  {Resolved, Rejected(MkError("Error", "Custom failure", 0, {})), Rejected(ThrownValue)}

OnSubmitSettle(i, outcome) ==
  /\ calls[i].pc = "pending"
  /\ Settle(i, outcome, Cause("onSubmit", 0, NoBody), NoError)
  /\ UNCHANGED <<themeVars, calc>>

\* makeRequest: an error reaches the catch block; it is retried after a delay
\* or thrown on through apiPost and submitContactForm to handleSubmit
Throw(i, error, cause) ==
  LET c == calls[i]
      k == makeRequestCatch(error, c.retryCount)
  IN  IF k.retry
        THEN /\ calls' = [calls EXCEPT ![i] =
                  Call(c.payload, "delay", c.retryCount, c.attempts, c.statuses,
                       Append(c.delays, RETRY_DELAY * (c.retryCount + 1)))]
             /\ lastStep' = Event("retryScheduled")
             /\ UNCHANGED <<formState, isSubmitting, submitResult, isSubmitted,
                            hideTimer, onSubmit>>
        ELSE Settle(i, submitContactForm(Rejected(k.error), NoBody),
                    [cause EXCEPT !.thrown = error], k.error)

\* fetch resolves with a response: the abort timer is cleared
FetchRespond(i, status) ==
  /\ calls[i].pc = "fetching"
  /\ calls' = [calls EXCEPT ![i] =
       Call(@.payload, "body", @.retryCount, @.attempts,
            Append(@.statuses, status), @.delays)]
  /\ lastStep' = Event("response")
  /\ UNCHANGED <<formState, isSubmitting, submitResult, isSubmitted, hideTimer,
                 onSubmit>>
  /\ UNCHANGED <<themeVars, calc>>

\* response.json() settles: the rest of makeRequest's try block
BodyRead(i, body) ==
  /\ calls[i].pc = "body"
  /\ LET status == calls[i].statuses[Len(calls[i].statuses)]
         t == makeRequestTry(status, body)
         cause == Cause("response", status, body)
     IN  IF t.ok
           THEN Settle(i, submitContactForm(Resolved, body), cause, NoError)
           ELSE Throw(i, t.error, cause)
  /\ UNCHANGED <<themeVars, calc>>

\* fetch rejects with a TypeError: no connection
FetchFail(i, message) ==
  /\ calls[i].pc = "fetching"
  /\ Throw(i, MkError("TypeError", message, 0, {}), Cause("fetchFailed", 0, NoBody))
  /\ UNCHANGED <<themeVars, calc>>

\* A timer of makeRequest fires: the abort timer while fetch is awaited
\* (controller.abort() rejects fetch with an AbortError), or the retry delay
\* (makeRequest calls itself with retryCount + 1)
TimerExpire(i) ==
  /\ calls[i].pc \in {"fetching", "delay"}
  /\ IF calls[i].pc = "fetching"
       THEN Throw(i, MkError("AbortError", "The user aborted a request.", 0, {}),
                  Cause("timeout", 0, NoBody))
       ELSE /\ calls' = [calls EXCEPT ![i] =
                 Call(@.payload, "fetching", @.retryCount + 1, @.attempts + 1,
                      @.statuses, @.delays)]
            /\ lastStep' = Event("retryFetch")
            /\ UNCHANGED <<formState, isSubmitting, submitResult, isSubmitted,
                           hideTimer, onSubmit>>
  /\ UNCHANGED <<themeVars, calc>>

Next ==
  \/ \E f \in Fields : \E k \in InputIndexes(f) : handleInputChange(f, Inputs[f][k])
  \/ \E f \in Fields : handleFieldBlur(f)
  \/ handleSubmit
  \/ handleReset
  \/ AutoHide
  \/ \E i \in DOMAIN calls : \E o \in OnSubmitOutcomes : OnSubmitSettle(i, o)
  \/ \E i \in DOMAIN calls : \E st \in Statuses : FetchRespond(i, st)
  \/ \E i \in DOMAIN calls : \E b \in Bodies : BodyRead(i, b)
  \/ \E i \in DOMAIN calls : \E m \in FetchFailures : FetchFail(i, m)
  \/ \E i \in DOMAIN calls : TimerExpire(i)

Spec == Init /\ [][Next]_vars


\* The call-progress steps the runtime guarantees to take: makeRequest's timers
\* fire, a received response delivers its body, and the submission function's
\* promise is one that settles
FairSpec ==
  /\ Spec
  /\ WF_vars(\E i \in DOMAIN calls : TimerExpire(i))
  /\ WF_vars(\E i \in DOMAIN calls : \E b \in Bodies : BodyRead(i, b))
  /\ WF_vars(\E i \in DOMAIN calls : \E o \in OnSubmitOutcomes : OnSubmitSettle(i, o))

\* The auto-hide timer, once set and not cleared, fires
AutoHideSpec == Spec /\ WF_vars(AutoHide)

(***************************************************************************)
(* Theme controller: mount, effects and handlers                           *)
(***************************************************************************)

\* The App component mounts on a page whose storage holds a theme or none,
\* works, rejects writes or rejects every access
ThemeInit ==
  /\ ContactInit
  /\ onSubmit = FALSE
  /\ calc = NoCalc
  /\ isDarkMode = FALSE
  /\ isThemeLoading = TRUE
  /\ themeError = ""
  /\ storedTheme \in {"none", "dark", "light"}
  /\ storage \in {"ok", "readOnly", "denied"}
  /\ prefersDark \in BOOLEAN
  /\ dataTheme = "unset"
  /\ darkModeClass = FALSE
  /\ applyPending = FALSE
  /\ themeStep = ThemeStep("mount", FALSE, storedTheme, FALSE, FALSE,
                           storedTheme = "none", "none")

\* Variant of ApplyRuns without the early return
ApplyRunsAlways(loading) == TRUE

\* The apply effect's early return: if (isThemeLoading) return
ApplyRuns(loading) == ~loading

\* Variant of ApplyStored that never persists the theme
ApplyStoredNever(dark) == storedTheme

\* The storage entry after the apply effect ran for mode dark: setItem throws
\* unless the storage works
ApplyStored(dark) == IF storage = "ok" THEN ThemeValue(dark) ELSE storedTheme

\* The mount effects.  initializeTheme: getItem throws when the storage is
\* denied, the setItem of the last visit throws unless the storage works; the
\* catch block falls back to the platform preference.  The apply effect of
\* the first render runs right after it, with that render's isDarkMode and
\* isThemeLoading, and returns at once; the render that follows schedules it
\* again.
initializeTheme ==
  /\ isThemeLoading
  /\ LET ran == ApplyRuns(isThemeLoading)
     IN  /\ dataTheme' = IF ran THEN ThemeValue(isDarkMode) ELSE dataTheme
         /\ darkModeClass' = IF ran THEN isDarkMode ELSE darkModeClass
         /\ storedTheme' = IF ran THEN ApplyStored(isDarkMode) ELSE storedTheme
  /\ LET threw == storage # "ok"
         dark == IF threw THEN prefersDark
                 ELSE IF UseDark(storedTheme, prefersDark) THEN TRUE
                 ELSE isDarkMode
     IN  /\ isDarkMode' = dark
         /\ themeError' = IF threw THEN LoadError ELSE themeError
         /\ themeStep' = ThemeStep("init", isDarkMode, storedTheme, threw, threw,
                                   themeStep.firstVisit, themeStep.toggledTo)
  /\ isThemeLoading' = FALSE
  /\ applyPending' = TRUE
  /\ UNCHANGED <<storage, prefersDark, contactVars, calc>>

\* The apply effect runs for the rendered state: body class and data-theme
\* first, then the setItem that may throw
applyTheme ==
  /\ applyPending
  /\ applyPending' = FALSE
  /\ IF ApplyRuns(isThemeLoading)
       THEN /\ dataTheme' = ThemeValue(isDarkMode)
            /\ darkModeClass' = isDarkMode
            /\ storedTheme' = ApplyStored(isDarkMode)
            /\ themeError' = IF storage # "ok" THEN ApplyError ELSE themeError
            /\ themeStep' = ThemeStep("apply", isDarkMode, storedTheme,
                                      storage # "ok", storage # "ok",
                                      themeStep.firstVisit, themeStep.toggledTo)
       ELSE /\ themeStep' = ThemeStep("apply", isDarkMode, storedTheme, FALSE, FALSE,
                                      themeStep.firstVisit, themeStep.toggledTo)
            /\ UNCHANGED <<dataTheme, darkModeClass, storedTheme, themeError>>
  /\ UNCHANGED <<isDarkMode, isThemeLoading, storage, prefersDark, contactVars, calc>>

\* handleThemeToggle.  An apply effect still pending for the previous render
\* is run by React before the new render; whether its setThemeError lands
\* before or after the handler's setThemeError(null) is the scheduler's choice.
handleThemeToggle ==
  /\ ~isThemeLoading
  /\ isDarkMode' = ~isDarkMode
  /\ dataTheme' = IF applyPending THEN ThemeValue(isDarkMode) ELSE dataTheme
  /\ darkModeClass' = IF applyPending THEN isDarkMode ELSE darkModeClass
  /\ storedTheme' = IF applyPending THEN ApplyStored(isDarkMode) ELSE storedTheme
  /\ themeError' \in IF applyPending /\ storage # "ok" THEN {"", ApplyError} ELSE {""}
  /\ applyPending' = TRUE
  /\ themeStep' = ThemeStep("toggle", isDarkMode, storedTheme, FALSE, FALSE,
                            themeStep.firstVisit,
                            IF isDarkMode THEN "light" ELSE "dark")
  /\ UNCHANGED <<isThemeLoading, storage, prefersDark, contactVars, calc>>

\* handleSystemThemeChange(event): the platform preference changed to matches.
\* getItem throws when the storage is denied; the catch block only logs.
\* When the mode changes, a pending apply effect runs before the new render.
handleSystemThemeChange(matches) ==
  /\ ~isThemeLoading
  /\ matches # prefersDark
  /\ prefersDark' = matches
  /\ LET threw == storage = "denied"
         dark == IF threw THEN isDarkMode
                 ELSE SystemThemeMode(storedTheme, matches, isDarkMode)
         flushed == applyPending /\ dark # isDarkMode
     IN  /\ isDarkMode' = dark
         /\ dataTheme' = IF flushed THEN ThemeValue(isDarkMode) ELSE dataTheme
         /\ darkModeClass' = IF flushed THEN isDarkMode ELSE darkModeClass
         /\ storedTheme' = IF flushed THEN ApplyStored(isDarkMode) ELSE storedTheme
         /\ themeError' = IF flushed /\ storage # "ok" THEN ApplyError ELSE themeError
         /\ applyPending' = (applyPending \/ dark # isDarkMode)
         /\ themeStep' = ThemeStep("systemChange", isDarkMode, storedTheme, threw, FALSE,
                                   themeStep.firstVisit, themeStep.toggledTo)
  /\ UNCHANGED <<isThemeLoading, storage, contactVars, calc>>

\* The page is loaded again: the component state is new, the storage stays,
\* the platform preference is whatever it is by then
Reload(prefers) ==
  /\ ~isThemeLoading
  /\ isDarkMode' = FALSE
  /\ isThemeLoading' = TRUE
  /\ themeError' = ""
  /\ dataTheme' = "unset"
  /\ darkModeClass' = FALSE
  /\ applyPending' = FALSE
  /\ prefersDark' = prefers
  /\ themeStep' = ThemeStep("reload", isDarkMode, storedTheme, FALSE, FALSE,
                            themeStep.firstVisit,
                            IF applyPending THEN "none" ELSE themeStep.toggledTo)
  /\ UNCHANGED <<storedTheme, storage, contactVars, calc>>

ThemeNext ==
  \/ initializeTheme
  \/ applyTheme
  \/ handleThemeToggle
  \/ \E matches \in BOOLEAN : handleSystemThemeChange(matches)
  \/ \E prefers \in BOOLEAN : Reload(prefers)

ThemeSpec == ThemeInit /\ [][ThemeNext]_vars

(***************************************************************************)
(* The pure functions on their own: sanitizeInput and validateField        *)
(***************************************************************************)

\* Inputs of sanitizeInput are concatenations of at most MaxTokens tokens
MaxTokens == 3

\* The pieces the sanitizer looks for, whole and split, and what may sit
\* between them
Tokens ==
  << <<"<">>,
     <<">">>,
     <<"j","a","v","a","s","c","r","i","p","t",":">>,
     <<"J","a","v","a","S","c","r","i","p","t",":">>,
     <<"j","a","v","a">>,
     <<"s","c","r","i","p","t",":">>,
     <<"o">>,
     <<"o","n","x","=">>,
     <<"n","c","l","i","c","k","=">>,
     <<"x">>,
     <<" ">>,
     <<"=">> >>

RECURSIVE TokenStrings(_)
TokenStrings(n) ==
  IF n = 0 THEN {<<>>}
  ELSE LET shorter == TokenStrings(n - 1)
       IN  shorter \cup {t \o Tokens[k] : t \in shorter, k \in DOMAIN Tokens}

\* Values of validateField have lengths within Slack of 0 and of each
\* configured minLength / maxLength
Slack == 1

Repeat(c, n) == [i \in 1..n |-> c]

Thresholds ==
  {0} \cup {FORM_FIELDS[f].minLength : f \in Fields}
      \cup {FORM_FIELDS[f].maxLength : f \in Fields}

ValueLengths == UNION {{n \in (t - Slack)..(t + Slack) : n >= 0} : t \in Thresholds}

\* Plain values of every length, the same with blanks around them, blank
\* values, and addresses that are and are not well formed
FieldValues ==
  {Repeat("a", n) : n \in ValueLengths}
    \cup {<<" ">> \o Repeat("a", n) \o <<" ">> : n \in ValueLengths}
    \cup {Repeat(" ", n) : n \in 1..(1 + Slack)}
    \cup { <<"a","@","b",".","c","o">>, <<"a","@","b">>, <<"@","b",".","c">>,
           <<"a"," ","b","@","c",".","d">>, <<"a","@","b","@","c",".","d">> }

\* Addresses: well formed for both checks, ill formed for both, and some with
\* a one-letter or numeric top-level domain or a character outside
\* VALIDATION_REGEX.EMAIL's classes
EmailValues ==
  { <<"a","@","b",".","c","o">>, <<" ","a","@","b",".","c","o"," ">>,
    <<"a","@","b">>, <<"@","b",".","c","o">>, <<"a","@",".","c","o">>,
    <<"a"," ","b","@","c",".","d","e">>, <<"a","@","b","@","c",".","d","e">>,
    <<"a","@","b",".">>, <<"a","b","c">>,
    <<"a","@","b",".","c">>, <<"a","@","b",".","c","0">>,
    <<"a","!","@","b",".","c","o">>, <<"a","@","b","_",".","c","o">> }

Calc(fn, field, input) ==
  [fn |-> fn, field |-> field, input |-> input, sanitized |-> <<>>,
   error |-> "", contactFormError |-> "", stored |-> EmptyField, done |-> FALSE]

CalcInit ==
  /\ ContactInit
  /\ onSubmit = FALSE
  /\ ThemeIdle
  /\ calc \in {Calc("sanitizeInput", "none", t) : t \in TokenStrings(MaxTokens)}
             \cup {Calc("validateField", f, v) : f \in Fields, v \in FieldValues}
             \cup {Calc("emailChecks", "email", v) : v \in EmailValues}
             \cup UNION {{Calc("handleInputChange", f, v) :
                            v \in Range(Inputs[f]) \cup TokenStrings(MaxTokens - 1)} :
                          f \in Fields}

\* sanitizeInput(input)
ApplySanitize ==
  /\ calc.fn = "sanitizeInput"
  /\ ~calc.done
  /\ calc' = [calc EXCEPT !.sanitized = sanitizeInput(calc.input), !.done = TRUE]
  /\ UNCHANGED <<contactVars, themeVars>>

\* validateField(fieldName, value)
ApplyValidate ==
  /\ calc.fn = "validateField"
  /\ ~calc.done
  /\ calc' = [calc EXCEPT !.error = validateField(calc.field, calc.input),
                          !.done = TRUE]
  /\ UNCHANGED <<contactVars, themeVars>>

\* handleInputChange(fieldName, value) on the field's state
ApplyChange ==
  /\ calc.fn = "handleInputChange"
  /\ ~calc.done
  /\ calc' = [calc EXCEPT !.stored = ChangedField(calc.input), !.done = TRUE]
  /\ UNCHANGED <<contactVars, themeVars>>

\* The two email checks on one value: validateField('email', value) of the
\* form and validateContactForm's
ApplyEmailChecks ==
  /\ calc.fn = "emailChecks"
  /\ ~calc.done
  /\ calc' = [calc EXCEPT !.error = validateField("email", calc.input),
                          !.contactFormError = validateContactFormEmail(calc.input),
                          !.done = TRUE]
  /\ UNCHANGED <<contactVars, themeVars>>

CalcNext == ApplySanitize \/ ApplyValidate \/ ApplyChange \/ ApplyEmailChecks

CalcSpec == CalcInit /\ [][CalcNext]_vars

(***************************************************************************)
(* Properties                                                              *)
(***************************************************************************)

TypeOK ==
  /\ \A f \in Fields : formState[f].touched \in BOOLEAN
  /\ isSubmitting \in BOOLEAN
  /\ isSubmitted \in BOOLEAN
  /\ hideTimer \in BOOLEAN
  /\ onSubmit \in BOOLEAN
  /\ submitResult.isNull \in BOOLEAN

\* Every field of the form passes validateField
FormValid(fs) == \A f \in Fields : validateField(f, fs[f].value) = ""

\* A payload made from fields that pass validateField
PayloadValid(p) ==
  /\ validateField("name", p.name) = ""
  /\ validateField("email", p.email) = ""
  /\ validateField("message", p.message) = ""
  /\ p.subject # Undefined => validateField("subject", p.subject[1]) = ""

Settled == lastStep.event = "settled"
SettledOk == Settled /\ lastStep.error = NoError
SettledFailed == Settled /\ lastStep.error # NoError

\* C1: the submission function is invoked only when whole-form validation
\* finds every field valid; a submit with an invalid field returns with no
\* call made and without entering the submitting state.
C1_SubmitOnlyWhenValid ==
  /\ lastStep.event = "submitStarted" =>
       FormValid(formState) /\ isSubmitting /\ calls # <<>>
  /\ \A i \in DOMAIN calls : PayloadValid(calls[i].payload)
  /\ lastStep.event = "submitBlocked" =>
       ~FormValid(formState) /\ calls = <<>> /\ ~isSubmitting

C1_Witness ==
  /\ lastStep.event = "submitBlocked"
  /\ formState["email"].error = MsgEmail
  /\ formState["message"].touched
  /\ calls = <<>>

\* C2: at most one submission call is in flight at any time, and one is in
\* flight only while isSubmitting is true.
C2_OneCallInFlight ==
  /\ Len(calls) <= 1
  /\ calls # <<>> => isSubmitting

C2_Witness ==
  /\ Len(calls) = 1
  /\ isSubmitting
  /\ lastStep.event = "blur"
  /\ isSubmitted

\* C3: with name, email and message valid and the optional subject empty, a
\* submit is never blocked: whole-form validation passes, the call is made
\* and its payload has no subject.
C3_EmptySubjectOmitted ==
  LET ok3 == /\ validateField("name", formState["name"].value) = ""
             /\ validateField("email", formState["email"].value) = ""
             /\ validateField("message", formState["message"].value) = ""
             /\ Trim(formState["subject"].value) = <<>>
  IN  ok3 =>
        /\ lastStep.event # "submitBlocked"
        /\ lastStep.event = "submitStarted" =>
             /\ calls # <<>>
             /\ calls[Len(calls)].payload.subject = Undefined
             /\ calls[Len(calls)].payload = BuildFormData(formState)

\* C4: when the submission resolves, all four fields are
\* {value: '', error: '', touched: false}, a success result is recorded and
\* isSubmitting is false.
C4_SuccessResetsForm ==
  SettledOk =>
    /\ \A f \in Fields : formState[f] = [value |-> <<>>, error |-> "", touched |-> FALSE]
    /\ ~submitResult.isNull /\ submitResult.success
    /\ ~isSubmitting

C4_Witness ==
  /\ SettledOk
  /\ lastStep.call.payload.name # <<>>
  /\ formState["name"].value = <<>>
  /\ submitResult.success

\* C5: when the submission rejects, the failure handling leaves every field's
\* value unchanged, records an error result carrying the error's message and
\* returns isSubmitting to false.
C5_FailureKeepsValues ==
  [][ (lastStep'.event = "settled" /\ lastStep'.error # NoError) =>
        /\ \A f \in Fields : formState'[f].value = formState[f].value
        /\ ~submitResult'.isNull /\ ~submitResult'.success
        /\ lastStep'.error.isError => submitResult'.message = lastStep'.error.message
        /\ ~isSubmitting' ]_vars

C5_Witness ==
  /\ SettledFailed
  /\ lastStep.error.isError
  /\ submitResult = Result(FALSE, lastStep.error.message)
  /\ formState["name"].value = lastStep.call.payload.name
  /\ formState["name"].value # <<>>


\* The settled call's story, for the default submitContactForm
SettledResponse == Settled /\ lastStep.cause.kind = "response"
SettledTimeout == Settled /\ lastStep.cause.kind = "timeout"

\* Every response the settled call received was a 5xx
AllServerErrors ==
  /\ lastStep.call.statuses # <<>>
  /\ \A k \in DOMAIN lastStep.call.statuses : lastStep.call.statuses[k] >= 500

\* 2xx response whose body has success = false
ServerValidationFailure ==
  /\ SettledResponse
  /\ ResponseOk(lastStep.cause.status)
  /\ lastStep.cause.body.json
  /\ ~lastStep.cause.body.success

\* C6: a request whose every attempt receives a 5xx response is attempted
\* exactly 3 times in total, with delays of 1 x and 2 x the base delay before
\* the retries, before the failure is surfaced.
C6_ServerErrorRetriedThreeTimes ==
  (SettledResponse /\ AllServerErrors) =>
    /\ lastStep.call.attempts = 3
    /\ lastStep.call.delays = <<RETRY_DELAY, 2 * RETRY_DELAY>>

\* C7: a request that fails with a 4xx response, with a server-side validation
\* failure, or with a timeout is surfaced after exactly one fetch attempt and
\* no retry delay.
C7_ClientErrorsNeverRetried ==
  LET clientError == /\ SettledResponse
                     /\ lastStep.cause.status >= 400
                     /\ lastStep.cause.status <= 499
  IN  (clientError \/ ServerValidationFailure \/ SettledTimeout) =>
        /\ lastStep.call.attempts = 1
        /\ lastStep.call.delays = <<>>
        /\ lastStep.error # NoError

C7_Witness ==
  /\ SettledResponse
  /\ lastStep.cause.status = 400
  /\ lastStep.call.attempts = 1
  /\ lastStep.error.name = "ApiError"
  /\ ~isSubmitting

\* C8: a failure of submitContactForm reaches the form with its kind kept: a
\* timeout as a NetworkError, a non-2xx response as an ApiError with the
\* response's status and the server's message or the 'HTTP <code>' default.
C8_FailureKindKept ==
  /\ SettledTimeout => lastStep.error.name = "NetworkError"
  /\ (SettledResponse /\ ~ResponseOk(lastStep.cause.status)) =>
       /\ lastStep.error.name = "ApiError"
       /\ lastStep.error.status = lastStep.cause.status
       /\ lastStep.error.message =
            (IF lastStep.cause.body.json /\ lastStep.cause.body.message # ""
               THEN lastStep.cause.body.message
               ELSE HttpMessage(lastStep.cause.status))

\* C9: a 2xx response whose body has success = false makes submitContactForm
\* reject with a ValidationError carrying the response's message and its
\* field-level error map, not rewrapped into another error.
C9_ServerValidationError ==
  ServerValidationFailure =>
    /\ lastStep.error.name = "ValidationError"
    /\ lastStep.error.message = lastStep.cause.body.message
    /\ lastStep.error.errors =
         (IF lastStep.cause.body.hasErrors THEN lastStep.cause.body.errors ELSE {})
    /\ submitResult = Result(FALSE, lastStep.cause.body.message)

C9_Witness ==
  /\ ServerValidationFailure
  /\ lastStep.error.name = "ValidationError"
  /\ lastStep.error.errors = FieldErrors
  /\ submitResult.message = "Validation failed"

\* Every submission that enters the submitting state leaves it
SubmittingEnds == isSubmitting ~> ~isSubmitting

\* C10: every submission that enters the submitting state eventually leaves
\* it, and when the request timeout fires the failure is reported as the
\* network-timeout error.
C10_SubmittingEndsTimeoutReported ==
  /\ isSubmitting ~> ~isSubmitting
  /\ [](SettledTimeout =>
          /\ lastStep.error = NetworkError("Request timeout")
          /\ submitResult = Result(FALSE, "Request timeout"))

\* The banner reports a success
SuccessShown == ~submitResult.isNull /\ submitResult.success

\* C11: after a successful submission the success banner is eventually
\* cleared, by the auto-hide timer unless a new submission (or a reset)
\* clears it first; the timer is set only while the success banner it was
\* started for is shown, so a timer started for an earlier success never
\* clears the banner of a later submission.
C11_SuccessBannerAutoHides ==
  /\ SuccessShown ~> submitResult.isNull
  /\ [](hideTimer => SuccessShown)
  /\ [][(hideTimer /\ hideTimer') => submitResult' = submitResult]_vars
  /\ [][lastStep'.event = "autoHide" => (SuccessShown /\ submitResult'.isNull)]_vars

\* The timer cleared the banner of a success
C11_Witness ==
  /\ lastStep.event = "autoHide"
  /\ isSubmitted
  /\ submitResult = NullResult
  /\ ~hideTimer

\* C12: a platform preference-change event that arrives while the storage
\* holds a theme leaves isDarkMode as it was.
C12_SystemChangeKeepsStoredTheme ==
  (themeStep.event = "systemChange" /\ themeStep.saved # "none")
    => isDarkMode = themeStep.before

\* The event arrives with a readable stored theme and a platform preference
\* that now differs from the mode
C12_Witness ==
  /\ themeStep.event = "systemChange"
  /\ themeStep.saved # "none"
  /\ storage = "ok"
  /\ prefersDark # isDarkMode

\* C13: on a first visit (no stored theme) with working storage, a toggle
\* flips isDarkMode, the apply effect stores the mode it ran for, and an
\* initialisation after a reload restores the mode the user toggled to
\* whatever the platform preference is.
C13_TogglePersistsAcrossReload ==
  (themeStep.firstVisit /\ storage = "ok") =>
    /\ themeStep.event = "toggle" =>
         /\ isDarkMode = ~themeStep.before
         /\ isDarkMode <=> themeStep.toggledTo = "dark"
    /\ themeStep.event = "apply" =>
         /\ storedTheme # "none"
         /\ isDarkMode <=> storedTheme = "dark"
    /\ (themeStep.event = "init" /\ themeStep.toggledTo # "none") =>
         (isDarkMode <=> themeStep.toggledTo = "dark")

\* A reloaded page restored the toggled mode against the platform preference
C13_Witness ==
  /\ themeStep.firstVisit
  /\ storage = "ok"
  /\ themeStep.event = "init"
  /\ themeStep.toggledTo # "none"
  /\ isDarkMode <=> themeStep.toggledTo = "dark"
  /\ prefersDark # isDarkMode

\* C14: with working storage, after initialisation isDarkMode is true
\* exactly when the stored theme is 'dark', or no theme is stored and the
\* platform prefers dark.
C14_InitialMode ==
  (themeStep.event = "init" /\ storage = "ok") =>
    (isDarkMode <=> \/ themeStep.saved = "dark"
                    \/ themeStep.saved = "none" /\ prefersDark)

\* A stored 'light' won over a platform that prefers dark
C14_Witness ==
  /\ themeStep.event = "init"
  /\ storage = "ok"
  /\ themeStep.saved = "light"
  /\ prefersDark
  /\ ~isDarkMode

\* C15: a storage exception in the theme controller (initialisation, apply
\* effect, platform preference handler) is recorded in themeError and never
\* keeps initialisation from completing; when initialisation fails,
\* isDarkMode is the platform preference.
C15_StorageErrorsRecorded ==
  /\ themeStep.threw => themeStep.recorded
  /\ themeStep.event = "init" => ~isThemeLoading
  /\ (themeStep.event = "init" /\ themeStep.threw) =>
       /\ themeError = LoadError
       /\ isDarkMode = prefersDark
  /\ (themeStep.event = "apply" /\ themeStep.threw) => themeError = ApplyError

\* C15 without the platform preference handler: initialisation and the apply
\* effect record their storage exceptions
StorageErrorsRecordedByEffects ==
  /\ (themeStep.threw /\ themeStep.event # "systemChange") => themeStep.recorded
  /\ themeStep.event = "init" => ~isThemeLoading
  /\ (themeStep.event = "init" /\ themeStep.threw) =>
       /\ themeError = LoadError
       /\ isDarkMode = prefersDark
  /\ (themeStep.event = "apply" /\ themeStep.threw) => themeError = ApplyError

\* sanitizeInput has been applied to calc.input
Sanitized == calc.fn = "sanitizeInput" /\ calc.done

\* C16: for every input string, the result of sanitizeInput contains no '<'
\* and no '>' character.
C16_NoAngleBrackets ==
  Sanitized => \A i \in DOMAIN calc.sanitized : calc.sanitized[i] \notin {"<", ">"}

\* An input with both brackets was sanitised
C16_Witness ==
  /\ Sanitized
  /\ \E i \in DOMAIN calc.input : calc.input[i] = "<"
  /\ \E i \in DOMAIN calc.input : calc.input[i] = ">"
  /\ calc.sanitized # <<>>

\* s contains 'javascript:' in some letter case
HasJavascriptProtocol(s) == \E i \in DOMAIN s : MatchLitAt(s, i, JavascriptProtocol)

\* s contains 'on', word characters and '='
HasHandler(s) == \E i \in DOMAIN s : HandlerMatchLen(s, i) > 0

\* C17: for every input string, the result of sanitizeInput contains no
\* 'javascript:' in any letter case and no 'on' + word characters + '='
\* pattern, also when the input nests such patterns or splits them by
\* characters that sanitisation removes.
C17_NoProtocolNoHandler ==
  Sanitized => ~HasJavascriptProtocol(calc.sanitized) /\ ~HasHandler(calc.sanitized)

\* validateField has been applied to calc.field and calc.input
Validated == calc.fn = "validateField" /\ calc.done

\* The checks of a field, on the trimmed value
RequiredFails(f, t) == FORM_FIELDS[f].required /\ t = <<>>
MinFails(f, t) == FORM_FIELDS[f].minLength # 0 /\ Len(t) < FORM_FIELDS[f].minLength
MaxFails(f, t) == FORM_FIELDS[f].maxLength # 0 /\ Len(t) > FORM_FIELDS[f].maxLength
FormatFails(f, t) == f = "email" /\ t # <<>> /\ ~emailRegexTest(t)

\* C19: Contact's validateField checks required, then minimum length, then
\* maximum length, then format, and returns the message of the first check
\* that fails, "" when none does; a value that is not blank and shorter than
\* the field's minimum length gets the too-short message.
C19_FirstFailingCheck ==
  Validated =>
    LET f == calc.field
        t == Trim(calc.input)
    IN  /\ RequiredFails(f, t) => calc.error = MsgRequired
        /\ (~RequiredFails(f, t) /\ MinFails(f, t)) =>
             calc.error = MsgTooShort(FORM_FIELDS[f].minLength)
        /\ (~RequiredFails(f, t) /\ ~MinFails(f, t) /\ MaxFails(f, t)) =>
             calc.error = MsgTooLong(FORM_FIELDS[f].maxLength)
        /\ (~RequiredFails(f, t) /\ ~MinFails(f, t) /\ ~MaxFails(f, t)
              /\ FormatFails(f, t)) => calc.error = MsgEmail
        /\ (~RequiredFails(f, t) /\ ~MinFails(f, t) /\ ~MaxFails(f, t)
              /\ ~FormatFails(f, t)) => calc.error = ""
        /\ (t # <<>> /\ MinFails(f, t)) =>
             calc.error = MsgTooShort(FORM_FIELDS[f].minLength)

\* A name of one letter between blanks got the too-short message
C19_Witness ==
  /\ Validated
  /\ calc.field = "name"
  /\ Len(calc.input) > 1
  /\ Len(Trim(calc.input)) = 1
  /\ calc.error = MsgTooShort(FORM_FIELDS["name"].minLength)

\* Number of whitespace characters s starts with, and ends with
LeadingBlanks(s) ==
  LET solid == {i \in DOMAIN s : s[i] \notin Whitespace}
  IN  IF solid = {} THEN Len(s)
      ELSE (CHOOSE i \in solid : \A j \in solid : i <= j) - 1

TrailingBlanks(s) ==
  LET solid == {i \in DOMAIN s : s[i] \notin Whitespace}
  IN  IF solid = {} THEN Len(s)
      ELSE Len(s) - (CHOOSE i \in solid : \A j \in solid : j <= i)

\* C18: a keystroke stores the typed value into the field's state without
\* trimming: the stored value starts and ends with the same whitespace as the
\* typed text.
C18_KeystrokeKeepsWhitespace ==
  (calc.fn = "handleInputChange" /\ calc.done) =>
    /\ LeadingBlanks(calc.stored.value) = LeadingBlanks(calc.input)
    /\ TrailingBlanks(calc.stored.value) = TrailingBlanks(calc.input)

\* C20: a name with a character other than letters, spaces, hyphens and
\* apostrophes is rejected by validation: no call of the submission function
\* carries such a name.
C20_NameCharactersChecked ==
  \A i \in DOMAIN calls : isValidName(calls[i].payload.name)

\* Both email checks have been applied to calc.input
EmailChecked == calc.fn = "emailChecks" /\ calc.done

\* C21: the form's email check accepts exactly the non-blank values of the
\* form local@domain.tld and rejects every other non-blank value with
\* 'Please enter a valid email address'; the form's check and
\* validateContactForm's check accept the same values.
C21_EmailChecksAgree ==
  (EmailChecked /\ Trim(calc.input) # <<>>) =>
    /\ calc.error \in {"", MsgEmail}
    /\ calc.error = "" <=> emailRegexTest(Trim(calc.input))
    /\ calc.error = "" <=> calc.contactFormError = ""

\* C21 for the form's check alone
FormEmailCheck ==
  (EmailChecked /\ Trim(calc.input) # <<>>) =>
    /\ calc.error \in {"", MsgEmail}
    /\ calc.error = "" <=> emailRegexTest(Trim(calc.input))

\* handleSubmit ran in the step
SubmitAttempted == lastStep'.event \in {"submitBlocked", "submitStarted"}

\* C22: whole-form validation evaluates every field on its own: after a
\* submit attempt every invalid field has its error message and touched =
\* true, every valid field has an empty error, and no field's value changed;
\* an attempt with an invalid field is blocked.
C22_EveryFieldValidated ==
  [][SubmitAttempted =>
       /\ \A f \in Fields :
            /\ formState'[f].value = formState[f].value
            /\ validateField(f, formState[f].value) # "" =>
                 /\ formState'[f].error = validateField(f, formState[f].value)
                 /\ formState'[f].touched
            /\ validateField(f, formState[f].value) = "" => formState'[f].error = ""
       /\ (\E f \in Fields : validateField(f, formState[f].value) # "") =>
            lastStep'.event = "submitBlocked"]_vars

\* name 'A', email 'bad', message 'hi' and a subject never typed: all four
\* fields carry their errors after the blocked submit
C22_Witness ==
  /\ lastStep.event = "submitBlocked"
  /\ formState["name"] = [value |-> <<"A">>, error |-> MsgTooShort(2), touched |-> TRUE]
  /\ formState["email"] = [value |-> <<"b","a","d">>, error |-> MsgEmail, touched |-> TRUE]
  /\ formState["message"] = [value |-> <<"h","i">>, error |-> MsgTooShort(10),
                              touched |-> TRUE]
  /\ formState["subject"].value = <<>>
  /\ formState["subject"].touched

\* The data-model invariant of a ContactFormData value, with the form's
\* address pattern
DataModelInvariant(p) ==
  /\ Trim(p.name) # <<>>
  /\ Trim(p.message) # <<>>
  /\ emailRegexTest(p.email)
  /\ p.subject # Undefined => (Len(p.subject[1]) >= 2 /\ Len(p.subject[1]) <= 100)

\* C23: every ContactFormData value passed to the submission function has a
\* name and a message that are not blank, an email that matches the address
\* pattern and a subject that is absent or 2 to 100 characters long; each
\* payload field is the trimmed value of the form field at the submit.
C23_PayloadInvariant ==
  /\ \A i \in DOMAIN calls : DataModelInvariant(calls[i].payload)
  /\ lastStep.event = "submitStarted" =>
       LET p == calls[Len(calls)].payload
       IN  /\ p.name = Trim(formState["name"].value)
           /\ p.email = Trim(formState["email"].value)
           /\ p.message = Trim(formState["message"].value)
           /\ p.subject = (IF Trim(formState["subject"].value) = <<>>
                             THEN Undefined
                             ELSE Some(Trim(formState["subject"].value)))

\* A submission started with the four typed values as its payload
C23_Witness ==
  /\ lastStep.event = "submitStarted"
  /\ calls # <<>>
  /\ calls[Len(calls)].payload =
       [name |-> <<"J","a","n","e"," ","D","o","e">>,
        email |-> <<"j","@","e",".","c","o">>,
        message |-> <<"p","H","e","l","l","o"," ","t","h","e","r","e">>,
        subject |-> Some(<<"H","i">>)]

\* C24: with working storage the theme entry is not written while
\* isThemeLoading is true (nor by the effects of the mount), and once loading
\* has completed and the apply effect has run for the current mode, the stored
\* theme is 'dark' exactly when isDarkMode is true and 'light' otherwise, and
\* the data-theme attribute and the dark-mode class match isDarkMode.
C24_AppliedThemeMatches ==
  storage = "ok" =>
    /\ (isThemeLoading \/ themeStep.event = "init") => storedTheme = themeStep.saved
    /\ (~isThemeLoading /\ ~applyPending) =>
         /\ storedTheme \in {"dark", "light"}
         /\ isDarkMode <=> storedTheme = "dark"
         /\ dataTheme \in {"dark", "light"}
         /\ isDarkMode <=> dataTheme = "dark"
         /\ isDarkMode <=> darkModeClass

\* On a first visit the apply effect after loading stored and applied 'dark'
C24_Witness ==
  /\ storage = "ok"
  /\ themeStep.event = "apply"
  /\ themeStep.saved = "none"
  /\ isDarkMode
  /\ storedTheme = "dark"
  /\ dataTheme = "dark"
  /\ darkModeClass

\* Loading has completed and the apply effect that follows it has run
LoadApplied == ~isThemeLoading /\ dataTheme # "unset"

NoSystemChangeAfterInit ==
  [][(storage = "ok" /\ ~isThemeLoading /\ themeStep'.event = "systemChange")
       => isDarkMode' = isDarkMode]_vars

\* The sanitized form of every text the model types
SanitizedInputs ==
  [f \in Fields |-> [k \in InputIndexes(f) |-> sanitizeInput(Inputs[f][k])]]

\* C25: a keystroke on field f stores the sanitized text as f's value, clears
\* f's error and marks f touched; a blur on f sets f's error to the validation
\* of its stored value, marks f touched and keeps its value; both leave every
\* other field, isSubmitting and submitResult unchanged.
C25_ChangeAndBlur ==
  [][/\ lastStep'.event = "change" =>
          /\ \E f \in Fields : \E k \in InputIndexes(f) :
                formState' = [formState EXCEPT ![f] =
                                [value |-> SanitizedInputs[f][k],
                                 error |-> "",
                                 touched |-> TRUE]]
          /\ isSubmitting' = isSubmitting
          /\ submitResult' = submitResult
     /\ lastStep'.event = "blur" =>
          /\ \E f \in Fields :
                /\ formState'[f].value = formState[f].value
                /\ formState'[f].error = validateField(f, formState[f].value)
                /\ formState'[f].touched
                /\ \A g \in Fields \ {f} : formState'[g] = formState[g]
          /\ isSubmitting' = isSubmitting
          /\ submitResult' = submitResult]_vars

\* The name was typed with markup, stored sanitized, and then blurred: it
\* carries a validation error while every other field is as it was
C25_Witness ==
  /\ lastStep.event = "blur"
  /\ formState["name"].value = SanitizedInputs["name"][1]
  /\ formState["name"].value # Inputs["name"][1]
  /\ formState["name"].error # ""
  /\ formState["name"].touched
  /\ \A g \in Fields \ {"name"} : formState[g] = EmptyField

\* C28: in every reachable state of the form a field with a non-empty error
\* is touched.
C28_ErrorImpliesTouched ==
  \A f \in Fields : formState[f].error # "" => formState[f].touched

\* The empty form was submitted: every field got an error and is touched
\* without ever having been typed in or blurred
C28_Witness ==
  /\ lastStep.event = "submitBlocked"
  /\ \A f \in Fields :
       /\ formState[f].value = <<>>
       /\ formState[f].error # ""
       /\ formState[f].touched

\* C29: while isSubmitting is true submitResult is null, and a result is
\* recorded exactly in the step in which isSubmitting returns to false.
C29_ResultWithSubmittingEnd ==
  /\ [](isSubmitting => submitResult = NullResult)
  /\ [][(isSubmitting /\ ~isSubmitting') =>
          (~submitResult'.isNull /\ lastStep'.event = "settled")]_vars
  /\ [][(submitResult.isNull /\ ~submitResult'.isNull) =>
          (isSubmitting /\ ~isSubmitting')]_vars

\* After a submission that succeeded a further one is in flight, and no
\* banner is shown
C29_Witness ==
  /\ isSubmitting
  /\ isSubmitted
  /\ submitResult = NullResult
  /\ lastStep.event = "submitStarted"
  /\ Len(calls) = 1

\* A banner reporting a failed submission is shown
FailureShown == ~submitResult.isNull /\ ~submitResult.success

\* C30: a failure banner is never cleared by the auto-hide timer: no timer
\* is armed while it is shown, it changes only when a later submit passes
\* validation and starts or when handleReset runs, and a submit blocked by
\* validation leaves the banner as it is.
C30_FailureBannerStays ==
  /\ [](FailureShown => ~hideTimer)
  /\ [][(FailureShown /\ submitResult' # submitResult) =>
          lastStep'.event \in {"submitStarted", "reset"}]_vars
  /\ [][lastStep'.event = "submitBlocked" => submitResult' = submitResult]_vars

\* A submit was blocked by validation while the failure banner was shown
C30_Witness ==
  /\ FailureShown
  /\ lastStep.event = "submitBlocked"
  /\ ~hideTimer
  /\ ~isSubmitting

\* makeRequest rejected: the settled call went through the default
\* submitContactForm and an error reached makeRequest's catch block
MakeRequestRejected == Settled /\ lastStep.cause.thrown # NoError

\* The ApiError of a non-2xx response with the given body
ExpectedApiError(status, body) ==
  ApiError(IF body.json /\ body.message # "" THEN body.message
           ELSE HttpMessage(status),
           status)

\* An aborted fetch rejects with NetworkError 'Request timeout' and a non-2xx
\* response with an ApiError carrying the status and the body's message or
\* the 'HTTP <status>: <statusText>' default
TimeoutAndStatusClassified ==
  /\ lastStep.cause.kind = "timeout" =>
       lastStep.requestError = NetworkError("Request timeout")
  /\ (lastStep.cause.kind = "response" /\ ~ResponseOk(lastStep.cause.status)) =>
       lastStep.requestError = ExpectedApiError(lastStep.cause.status, lastStep.cause.body)

\* The error in the catch block is neither the abort nor a non-2xx ApiError
OtherThrown ==
  /\ lastStep.cause.kind # "timeout"
  /\ ~(lastStep.cause.kind = "response" /\ ~ResponseOk(lastStep.cause.status))

\* C26 as stated: makeRequest rejects an aborted fetch with NetworkError
\* 'Request timeout', a non-2xx response with an ApiError of that status whose
\* message is the body's message or 'HTTP <status>: <statusText>', and
\* rethrows any other thrown error unchanged.
C26_MakeRequestClassification ==
  MakeRequestRejected =>
    /\ TimeoutAndStatusClassified
    /\ OtherThrown => lastStep.requestError = lastStep.cause.thrown

\* C26 amended: as above, except that a TypeError of fetch whose message
\* contains 'fetch' is rejected as NetworkError 'Network connection failed';
\* every remaining error is rethrown unchanged.
C26_Amended_MakeRequestClassification ==
  MakeRequestRejected =>
    /\ TimeoutAndStatusClassified
    /\ OtherThrown =>
         lastStep.requestError =
           (IF /\ lastStep.cause.thrown.name = "TypeError"
               /\ lastStep.cause.thrown.message \in IncludesFetch
              THEN NetworkError("Network connection failed")
              ELSE lastStep.cause.thrown)

\* fetch failed with 'Failed to fetch' and makeRequest rejected with the
\* NetworkError
C26_Witness ==
  /\ MakeRequestRejected
  /\ lastStep.cause.kind = "fetchFailed"
  /\ lastStep.cause.thrown = MkError("TypeError", "Failed to fetch", 0, {})
  /\ lastStep.requestError = NetworkError("Network connection failed")

=============================================================================
